---- MODULE Spec2Model ----
(***************************************************************************)
(* A model of the PR review CLI of .agent/scripts: the merge command of    *)
(* pr.py (message synthesis, validation, version store, confirmation and   *)
(* the external merge call) and the resolve command of pr.py and           *)
(* inventory_threads.py.  Texts are TLA+ strings; the regular expressions  *)
(* of the source are written out as operators over their characters.      *)
(***************************************************************************)
EXTENDS Integers, Sequences, FiniteSets, TLC

VARIABLES
    pc,            \* position of the merge command in its handler
    exit_code,     \* process exit status of the command, NoExit while running
    opts,          \* the command-line options of the merge invocation
    provider,      \* the PR at the provider: its details and review threads
    pr_number,     \* parameter pr_number of merge(), NoNumber until detected
    pr,            \* the snapshot returned by get_pr_details, NoPr before
    ai_result,     \* what generate_ai_message returned, NoAi when not called
    merge_title,   \* local merge_title of merge()
    merge_body,    \* local merge_body of merge()
    source,        \* local source of merge()
    auto_related,  \* local auto_related of merge()
    validated,     \* titles that passed validate_semantic_title, in order
    files,         \* the per-PR cache directory: file name -> content
    files0,        \* the cache directory as it was when the command started
    clock,         \* seconds elapsed on the wall clock (datetime.now())
    prompts,       \* confirmation prompts shown so far, with the answers
    merge_calls,   \* invocations of the external merge executor
    history_out,   \* the file names the history listing printed
    r_pc,          \* position of the resolve command in its handler
    r_script,      \* which script's resolve runs: "pr" or "inventory_threads"
    r_thread,      \* the thread_id argument of resolve
    r_reply,       \* the reply argument of resolve
    r_sent,        \* provider mutations sent by resolve, in order
    r_exit,        \* exit status of resolve, NoExit while running
    c_pc,          \* position of a direct call of one function: CALL, RETURNED
    c_fn,          \* the function called directly
    c_args,        \* its arguments
    c_result,      \* the value it returned
    t_pc,          \* position of the thread inventory in its handler
    t_script,      \* whose inventory runs: "pr" or "inventory_threads"
    t_refetch,     \* force_refetch of get_thread_inventory, --refetch of inventory
    t_author,      \* --author of inventory, None when not given
    t_cache,       \* the thread cache file: absent, or its JSON text
    t_cache0,      \* the thread cache file as it was when the command started
    t_calls,       \* the provider commands run so far, in order
    t_data,        \* local data: the parsed response
    t_result,      \* the threads returned
    t_exit         \* exit status of the inventory, NoExit while running

mergeVars == <<pc, exit_code, opts, provider, pr_number, history_out, pr, ai_result, merge_title,
               merge_body, source, auto_related, validated, files, files0,
               clock, prompts, merge_calls>>
resolveVars == <<r_pc, r_script, r_thread, r_reply, r_sent, r_exit>>
callVars == <<c_pc, c_fn, c_args, c_result>>
threadVars == <<t_pc, t_script, t_refetch, t_author, t_cache, t_cache0, t_calls, t_data,
                t_result, t_exit>>
vars == <<mergeVars, resolveVars, callVars, threadVars>>

None == "<None>"
NoExit == -1
NoNumber == 0
NoPr == [absent |-> TRUE]
NoAi == [called |-> FALSE]

(***************************************************************************)
(* Strings, as Python's str methods and the re module treat them.          *)
(***************************************************************************)
Ch(s, i) == SubSeq(s, i, i)

Digits == "0123456789"
LowerLetters == "abcdefghijklmnopqrstuvwxyz"
UpperLetters == "ABCDEFGHIJKLMNOPQRSTUVWXYZ"
HexChars == "0123456789abcdef"

\* index of the one-character string c in s (of distinct characters), 0 when absent
IndexIn(c, s) ==
    IF \E i \in 1..Len(s) : Ch(s, i) = c
    THEN CHOOSE i \in 1..Len(s) : Ch(s, i) = c
    ELSE 0

IsDigit(c) == IndexIn(c, Digits) > 0
IsHex(c) == IndexIn(c, HexChars) > 0
\* \s of the re module
IsSpace(c) == c \in {" ", "\n", "\t", "\r", "\f"}
\* \w of the re module
IsWord(c) == IndexIn(c, LowerLetters) > 0 \/ IndexIn(c, UpperLetters) > 0
             \/ IsDigit(c) \/ c = "_"

LowerCh(c) ==
    LET i == IndexIn(c, UpperLetters) IN IF i > 0 THEN Ch(LowerLetters, i) ELSE c

\* the text with every character lowered (halved, to keep the evaluation shallow)
RECURSIVE Lower(_)
Lower(s) ==
    IF Len(s) <= 1 THEN LowerCh(s)
    ELSE Lower(SubSeq(s, 1, Len(s) \div 2)) \o Lower(SubSeq(s, Len(s) \div 2 + 1, Len(s)))

\* needle occurs in hay at position i
At(hay, needle, i) ==
    /\ i >= 1
    /\ i + Len(needle) - 1 <= Len(hay)
    /\ SubSeq(hay, i, i + Len(needle) - 1) = needle

\* Python's `needle in hay`
Contains(hay, needle) == \E i \in 1..(Len(hay) + 1) : At(hay, needle, i)

\* the leftmost position >= i where needle occurs in hay, 0 when there is none
FindFrom(hay, needle, i) ==
    LET hits == {j \in i..(Len(hay) - Len(needle) + 1) : At(hay, needle, j)}
    IN IF hits = {} THEN 0 ELSE CHOOSE j \in hits : \A k \in hits : j <= k

\* Python's hay.find(needle) + 1: the leftmost position, 0 when absent
Find(hay, needle) == FindFrom(hay, needle, 1)

RECURSIVE LStrip(_)
LStrip(s) == IF s # "" /\ IsSpace(Ch(s, 1)) THEN LStrip(SubSeq(s, 2, Len(s))) ELSE s

RECURSIVE RStrip(_)
RStrip(s) ==
    IF s # "" /\ IsSpace(Ch(s, Len(s))) THEN RStrip(SubSeq(s, 1, Len(s) - 1)) ELSE s

\* str.strip()
Strip(s) == RStrip(LStrip(s))

\* str.lstrip("#")
RECURSIVE LStripHash(_)
LStripHash(s) == IF s # "" /\ Ch(s, 1) = "#" THEN LStripHash(SubSeq(s, 2, Len(s))) ELSE s

\* str.split(sep, 1): one or two parts
Split1(s, sep) ==
    LET i == Find(s, sep) IN
    IF i = 0 THEN <<s>>
    ELSE <<SubSeq(s, 1, i - 1), SubSeq(s, i + Len(sep), Len(s))>>

\* str.split("\n")
RECURSIVE Lines(_)
Lines(s) ==
    LET i == Find(s, "\n") IN
    IF i = 0 THEN <<s>>
    ELSE <<SubSeq(s, 1, i - 1)>> \o Lines(SubSeq(s, i + 1, Len(s)))

\* "\n".join(seq)
RECURSIVE JoinLines(_)
JoinLines(seq) ==
    IF seq = <<>> THEN ""
    ELSE IF Len(seq) = 1 THEN seq[1]
    ELSE seq[1] \o "\n" \o JoinLines(Tail(seq))

\* str(n) of a natural number
RECURSIVE Str(_)
Str(n) == IF n < 10 THEN Ch(Digits, n + 1) ELSE Str(n \div 10) \o Ch(Digits, (n % 10) + 1)

\* int(s) of a string of digits
RECURSIVE ParseInt(_)
ParseInt(s) ==
    IF s = "" THEN 0
    ELSE 10 * ParseInt(SubSeq(s, 1, Len(s) - 1)) + (IndexIn(Ch(s, Len(s)), Digits) - 1)

\* the longest run of characters satisfying a class, starting at position i
RECURSIVE DigitRunEnd(_, _)
DigitRunEnd(s, i) ==
    IF i <= Len(s) /\ IsDigit(Ch(s, i)) THEN DigitRunEnd(s, i + 1) ELSE i - 1

RECURSIVE SkipSpace(_, _)
SkipSpace(s, i) == IF i <= Len(s) /\ IsSpace(Ch(s, i)) THEN SkipSpace(s, i + 1) ELSE i

(***************************************************************************)
(* validate_semantic_title: re.match of                                    *)
(*   ^(feat|fix|...)(\([a-z0-9-]+\))?: .+ \(#<pr>\)$   with re.IGNORECASE  *)
(***************************************************************************)
COMMIT_TYPES == <<"feat", "fix", "docs", "style", "refactor", "test", "chore", "perf", "ci">>

\* [a-z0-9-] under re.IGNORECASE
IsScopeCh(c) == IndexIn(LowerCh(c), LowerLetters) > 0 \/ IsDigit(c) \/ c = "-"

\* (\([a-z0-9-]+\))? starting at position i: the positions where it can end
ScopeEnds(t, i) ==
    {i - 1} \cup
    {j \in (i + 2)..Len(t) :
        /\ Ch(t, i) = "("
        /\ Ch(t, j) = ")"
        /\ \A k \in (i + 1)..(j - 1) : IsScopeCh(Ch(t, k))}

\* ": .+ \(#<pr>\)$" starting at position i ($ also matches before a final newline)
TailMatches(t, i, prn) ==
    LET suffix == " (#" \o Str(prn) \o ")"
        body == SubSeq(t, i, Len(t))
        core == IF body # "" /\ Ch(body, Len(body)) = "\n"
                THEN {body, SubSeq(body, 1, Len(body) - 1)} ELSE {body}
    IN \E b \in core :
        /\ At(b, ": ", 1)
        /\ Len(b) >= 2 + 1 + Len(suffix)
        /\ At(b, suffix, Len(b) - Len(suffix) + 1)
        /\ ~Contains(SubSeq(b, 3, Len(b) - Len(suffix)), "\n")

TitleMatches(title, prn) ==
    \E k \in 1..Len(COMMIT_TYPES) :
        /\ Len(title) >= Len(COMMIT_TYPES[k])
        /\ Lower(SubSeq(title, 1, Len(COMMIT_TYPES[k]))) = COMMIT_TYPES[k]
        /\ \E e \in ScopeEnds(title, Len(COMMIT_TYPES[k]) + 1) :
              TailMatches(title, e + 1, prn)

ValidationError(prn) ==
    "Title must match: type(scope): description (#" \o Str(prn) \o ")\n"
    \o "Types: feat, fix, docs, style, refactor, test, chore, perf, ci\n"
    \o "Example: feat(semantics): implement type inference (#" \o Str(prn) \o ")"

\* the pair (valid, error) the function returns
validate_semantic_title(title, prn) ==
    IF TitleMatches(title, prn)
    THEN <<TRUE, "">>
    ELSE <<FALSE, ValidationError(prn)>>

(***************************************************************************)
(* validate_reply of the two scripts: \b[0-9a-f]{7,40}\b or #\d+           *)
(***************************************************************************)
ShaMin == 7
ShaMax == 40

\* \b at the gap before position i of s
WordBoundary(s, i) ==
    LET before == i > 1 /\ IsWord(Ch(s, i - 1))
        after == i <= Len(s) /\ IsWord(Ch(s, i))
    IN before # after

\* re.search(r"\b[0-9a-f]{7,40}\b", body)
HasSha(body) ==
    \E i \in 1..Len(body) : \E n \in ShaMin..ShaMax :
        /\ i + n - 1 <= Len(body)
        /\ \A k \in i..(i + n - 1) : IsHex(Ch(body, k))
        /\ WordBoundary(body, i)
        /\ WordBoundary(body, i + n)

\* re.search(r"#\d+", body)
HasIssueRef(body) ==
    \E i \in 1..(Len(body) - 1) : Ch(body, i) = "#" /\ IsDigit(Ch(body, i + 1))

\* a check that takes a bare "#" for an issue reference
validate_reply_bare_hash(body) == HasSha(body) \/ Contains(body, "#")

\* pr.py: TRUE when the reply is accepted, FALSE when typer.Exit(1) is raised
validate_reply_pr(body) == ~(~(HasSha(body) \/ HasIssueRef(body)))

\* a check whose hash pattern has no word boundaries
validate_reply_unbounded(body) ==
    \/ \E i \in 1..(Len(body) - ShaMin + 1) : \A k \in i..(i + ShaMin - 1) : IsHex(Ch(body, k))
    \/ HasIssueRef(body)

\* inventory_threads.py
validate_reply_inventory(body) ==
    LET has_commit == HasSha(body)
        has_issue == HasIssueRef(body)
    IN ~(~(has_commit \/ has_issue))

(***************************************************************************)
(* Version store: save_msg_version and the cache directory of one PR.      *)
(***************************************************************************)
HashLen == 7
HashSpace == 16 ^ HashLen
\* the characters of the modelled texts, in code-point order
CodeChars == "\n !#()-." \o Digits \o ":" \o UpperLetters \o "_" \o LowerLetters

\* hashlib.md5(content).hexdigest(): a deterministic digest of the characters
\* (a multiplicative checksum stands for MD5, which has no TLA+ rendering)
\* Digest(s, lo, hi, h): h after the characters lo..hi of s, in order
RECURSIVE Digest(_, _, _, _)
Digest(s, lo, hi, h) ==
    IF lo > hi THEN h
    ELSE IF lo = hi THEN (h * 7 + IndexIn(Ch(s, lo), CodeChars) + 1) % HashSpace
    ELSE LET mid == (lo + hi) \div 2
             left == Digest(s, lo, mid, h)
         IN \* the left half is evaluated before the right half starts
            IF left \in Nat THEN Digest(s, mid + 1, hi, left) ELSE left

RECURSIVE HexDigits(_, _)
HexDigits(h, n) ==
    IF n = 0 THEN "" ELSE HexDigits(h \div 16, n - 1) \o Ch(HexChars, (h % 16) + 1)

\* hashlib.md5(content.encode()).hexdigest()[:7]
MsgHash(content) == HexDigits(Digest(content, 1, Len(content), 0), HashLen)

\* datetime.now().strftime("%Y%m%d-%H%M%S") at second `now` of the run
TimeStamp(now) == "20260101-0000" \o (IF now < 10 THEN "0" ELSE "") \o Str(now)

MsgContent(title, body) == title \o "\n\n" \o body

\* a file name that leaves the content hash out
VersionFileNameUnhashed(now, src, content) == TimeStamp(now) \o "-" \o src \o ".md"

VersionFileName(now, src, content) ==
    TimeStamp(now) \o "-" \o src \o "-" \o MsgHash(content) \o ".md"

WriteText(dir, name, content) ==
    [n \in DOMAIN dir \cup {name} |-> IF n = name THEN content ELSE dir[n]]

\* a save that writes the version file and leaves the latest pointer alone
save_version_file_only(dir, now, title, body, src) ==
    WriteText(dir, VersionFileName(now, src, MsgContent(title, body)), MsgContent(title, body))

\* the cache directory after save_msg_version(pr_number, title, body, source)
save_msg_version(dir, now, title, body, src) ==
    LET content == MsgContent(title, body)
        version_file == VersionFileName(now, src, content)
    IN WriteText(WriteText(dir, version_file, content), "latest.md", content)

EmptyDir == [n \in {} |-> ""]

(***************************************************************************)
(* generate_merge_body                                                     *)
(***************************************************************************)
MaxListed == 10
RelatedKeywords == <<"relates", "towards", "part of", "connects to", "see">>

RECURSIVE NonEmpty(_)
NonEmpty(seq) ==
    IF seq = <<>> THEN <<>>
    ELSE (IF seq[1] # "" THEN <<seq[1]>> ELSE <<>>) \o NonEmpty(Tail(seq))

RECURSIVE Bullets(_)
Bullets(seq) == IF seq = <<>> THEN <<>> ELSE <<"- " \o seq[1]>> \o Bullets(Tail(seq))

\* an issue record's number is falsy when it is missing or 0
RECURSIVE FixesLines(_)
FixesLines(closing) ==
    IF closing = <<>> THEN <<>>
    ELSE (IF closing[1] # 0 THEN <<"Fixes #" \o Str(closing[1])>> ELSE <<>>)
         \o FixesLines(Tail(closing))

ClosingNumbers(closing) == {closing[i] : i \in DOMAIN closing} \ {0}

\* re.findall(r"(?:relates|towards|part of|connects to|see)\s+(?:to\s+)?#(\d+)",
\*            pr_body, re.IGNORECASE), as the set of the captured digit strings
FoundRelated(pr_body) ==
    LET low == Lower(pr_body)
        HashAt(i) ==
            \* where the "#" must stand when the keyword ended just before i
            IF ~(i <= Len(low) /\ IsSpace(Ch(low, i))) THEN 0
            ELSE LET j == SkipSpace(low, i)
                     viaTo == IF At(low, "to", j) /\ j + 2 <= Len(low) /\ IsSpace(Ch(low, j + 2))
                              THEN SkipSpace(low, j + 2) ELSE 0
                 IN IF viaTo > 0 /\ At(low, "#", viaTo) /\ viaTo < Len(low) /\ IsDigit(Ch(low, viaTo + 1))
                    THEN viaTo
                    ELSE IF At(low, "#", j) /\ j < Len(low) /\ IsDigit(Ch(low, j + 1))
                    THEN j ELSE 0
    IN {SubSeq(pr_body, HashAt(i + Len(RelatedKeywords[k])) + 1,
                        DigitRunEnd(pr_body, HashAt(i + Len(RelatedKeywords[k])) + 1)) :
          <<i, k>> \in {<<i, k>> \in (1..Len(low)) \X DOMAIN RelatedKeywords :
                          /\ At(low, RelatedKeywords[k], i)
                          /\ HashAt(i + Len(RelatedKeywords[k])) > 0}}

\* sorted(list(set(numbers)), key=int): the strings are distinct, their
\* numbers need not be; the order of two strings of one number is the set's
RECURSIVE SortedByInt(_)
SortedByInt(S) ==
    IF S = {} THEN <<>>
    ELSE LET m == CHOOSE x \in S : \A y \in S : ParseInt(x) <= ParseInt(y)
         IN <<m>> \o SortedByInt(S \ {m})

UniqueRelated(p) ==
    SortedByInt({n \in FoundRelated(p.body) : ParseInt(n) \notin ClosingNumbers(p.closing)})

\* the pair (body, unique_related) the function returns
generate_merge_body(p, prn) ==
    LET commits == p.commits
        commit_msgs == NonEmpty(commits)
        head == <<"PR #" \o Str(prn) \o ": " \o p.title, "", "## Changes", "">>
        listed == Bullets(SubSeq(commit_msgs, 1,
                                 IF Len(commit_msgs) < MaxListed THEN Len(commit_msgs) ELSE MaxListed))
        more == IF Len(commits) > MaxListed
                THEN <<"- ... and " \o Str(Len(commits) - MaxListed) \o " more commits">>
                ELSE <<>>
        fixes == IF p.closing # <<>>
                 THEN <<"", "## Fixes", "">> \o FixesLines(p.closing) ELSE <<>>
        unique_related == UniqueRelated(p)
        related == IF unique_related # <<>>
                   THEN <<"", "## Related Issues", "">>
                        \o [i \in DOMAIN unique_related |-> "Relates to #" \o unique_related[i]]
                   ELSE <<>>
    IN <<JoinLines(head \o listed \o more \o fixes \o related), unique_related>>

(***************************************************************************)
(* generate_ai_message: the outcome of the external generator and the      *)
(* parse of its output into (ai_title, ai_body)                            *)
(***************************************************************************)
\* re.search(r"TITLE:\s*(.+)", output): group(1), or None
TitleGroup(output) ==
    LET i == Find(output, "TITLE:")
        j == SkipSpace(output, i + 6)
    IN IF i = 0 \/ j > Len(output) THEN None
       ELSE SubSeq(output, j, j + Len(Split1(SubSeq(output, j, Len(output)), "\n")[1]) - 1)

\* re.search(r"BODY:\s*(.*)", output, re.DOTALL): group(1), or None
BodyGroup(output) ==
    LET i == Find(output, "BODY:")
    IN IF i = 0 THEN None
       ELSE SubSeq(output, SkipSpace(output, i + 5), Len(output))

\* outcome.ok is FALSE when `gh pr diff` or the generator process failed
generate_ai_message(outcome) ==
    IF ~outcome.ok THEN <<"", "">>
    ELSE LET output == Strip(outcome.stdout)
             tg == TitleGroup(output)
             bg == BodyGroup(output)
             ai_title == IF tg # None THEN Strip(tg) ELSE ""
             ai_body == IF bg # None THEN Strip(bg) ELSE ""
             lines == Lines(output)
         IN IF ai_title = ""
            THEN <<lines[1], JoinLines(Tail(lines))>>
            ELSE <<ai_title, ai_body>>

(***************************************************************************)
(* The footer steps of merge()                                             *)
(***************************************************************************)
\* a loop that appends every line without looking at the body first
RECURSIVE AppendFixesLinesAlways(_, _)
AppendFixesLinesAlways(body, closing) ==
    IF closing = <<>> THEN body
    ELSE AppendFixesLinesAlways(IF closing[1] # 0
                                THEN body \o "\nFixes #" \o Str(closing[1]) ELSE body,
                                Tail(closing))

RECURSIVE AppendFixesLines(_, _)
AppendFixesLines(body, closing) ==
    IF closing = <<>> THEN body
    ELSE LET num == closing[1]
             next == IF num # 0 /\ ~Contains(body, "Fixes #" \o Str(num))
                     THEN body \o "\nFixes #" \o Str(num) ELSE body
         IN AppendFixesLines(next, Tail(closing))

\* "Append Fixes if not present"
AppendFixes(body, closing) ==
    IF closing = <<>> THEN body
    ELSE AppendFixesLines(IF ~Contains(body, "## Fixes") THEN body \o "\n\n## Fixes\n" ELSE body,
                          closing)

RelatedHeading(body) ==
    IF ~Contains(body, "## Related Issues") THEN body \o "\n\n## Related Issues\n" ELSE body

RECURSIVE AppendAutoLines(_, _)
AppendAutoLines(body, nums) ==
    IF nums = <<>> THEN body
    ELSE AppendAutoLines(IF ~Contains(body, "Relates to #" \o nums[1])
                         THEN body \o "\nRelates to #" \o nums[1] ELSE body,
                         Tail(nums))

\* "Related issues from PR body"
AppendAutoRelated(body, auto) ==
    IF auto = <<>> THEN body ELSE AppendAutoLines(RelatedHeading(body), auto)

InSeq(x, seq) == \E i \in DOMAIN seq : seq[i] = x

RECURSIVE AppendCliLines(_, _, _)
AppendCliLines(body, relates_to, auto) ==
    IF relates_to = <<>> THEN body
    ELSE LET clean_issue == LStripHash(Strip(relates_to[1]))
             next == IF ~InSeq(clean_issue, auto) /\ ~Contains(body, "Relates to #" \o clean_issue)
                     THEN body \o "\nRelates to #" \o clean_issue ELSE body
         IN AppendCliLines(next, Tail(relates_to), auto)

\* "Explicitly related issues (from CLI)"
AppendCliRelated(body, relates_to, auto) ==
    IF relates_to = <<>> THEN body
    ELSE AppendCliLines(RelatedHeading(body), relates_to, auto)

(***************************************************************************)
(* history: the listing of the saved versions                              *)
(***************************************************************************)
\* a < b as Python compares str (by code point)
StrLess(a, b) ==
    \/ Len(a) < Len(b) /\ SubSeq(b, 1, Len(a)) = a
    \/ \E i \in 1..Len(a) :
          /\ i <= Len(b)
          /\ SubSeq(a, 1, i - 1) = SubSeq(b, 1, i - 1)
          /\ IndexIn(Ch(a, i), CodeChars) < IndexIn(Ch(b, i), CodeChars)

\* sorted(names, reverse=True)
RECURSIVE SortedDesc(_)
SortedDesc(S) ==
    IF S = {} THEN <<>>
    ELSE LET m == CHOOSE x \in S : \A y \in S \ {x} : StrLess(y, x)
         IN <<m>> \o SortedDesc(S \ {m})

\* cache_dir.glob("msg-*.md")
GlobMsg(dir) ==
    {n \in DOMAIN dir : Len(n) >= 7 /\ At(n, "msg-", 1) /\ At(n, ".md", Len(n) - 2)}

\* the files history() lists, in the order it prints them
history(dir) == SortedDesc(GlobMsg(dir))

(***************************************************************************)
(* Inputs of the merge command                                             *)
(***************************************************************************)
MaxRelates == 1
MaxCommits == 2

PrNumbers == {7}
Truthy(s) == s \notin {None, ""}

OldTitle == "fix: old (#7)"
OldBody == "old body"
OldId == MsgHash(MsgContent(OldTitle, OldBody))

\* the cache directory before the run: empty, or holding one earlier version
InitialDirs == {EmptyDir, save_msg_version(EmptyDir, 0, OldTitle, OldBody, "manual")}

RECURSIVE SeqsUpTo(_, _)
SeqsUpTo(S, n) ==
    IF n = 0 THEN {<<>>}
    ELSE LET shorter == SeqsUpTo(S, n - 1)
         IN shorter \cup {Append(q, x) : q \in shorter, x \in S}
RelatesOpts == SeqsUpTo({"1", "#12"}, MaxRelates)

Options ==
    [title : {None, "fix: override (#7)", "override"},
     dry_run : BOOLEAN,
     relates_to : RelatesOpts,
     ai : BOOLEAN,
     edit : BOOLEAN,
     version : {None, OldId},
     history_list : BOOLEAN]

Commits == SubSeq(<<"fix: typo", "", "docs: readme">>, 1, MaxCommits)

OpenThread == [isResolved |-> FALSE, isOutdated |-> FALSE]
ResolvedThread == [isResolved |-> TRUE, isOutdated |-> FALSE]
OutdatedThread == [isResolved |-> FALSE, isOutdated |-> TRUE]
Settled == <<ResolvedThread, OutdatedThread>>

\* what `gh pr view --json title,body,commits,state,mergeable,closingIssuesReferences`
\* returns, and the PR's review threads
Provider(t, b, cl, st, mg, th) ==
    [pr |-> [title |-> t, body |-> b, commits |-> Commits, closing |-> cl,
             state |-> st, mergeable |-> mg],
     threads |-> th]

ProviderStates ==
    {Provider("feat: add parser", "", <<>>, "OPEN", "MERGEABLE", Settled),
     Provider("feat: add parser (#7)", "Part of #1", <<12>>, "OPEN", "MERGEABLE", <<>>),
     Provider("Update deps", "", <<>>, "OPEN", "MERGEABLE", Settled),
     Provider("feat: add parser", "", <<>>, "MERGED", "UNKNOWN", Settled),
     Provider("feat: add parser", "", <<>>, "OPEN", "CONFLICTING", Settled),
     Provider("feat: add parser", "", <<>>, "OPEN", "MERGEABLE", <<OpenThread, ResolvedThread>>),
     Provider("fix: leak", "Relates to #12", <<12>>, "OPEN", "MERGEABLE", Settled),
     Provider("fix: leak", "See #1, relates to #12", <<>>, "OPEN", "MERGEABLE", Settled),
     Provider("fix: leak (#7)", "", <<12, 1>>, "OPEN", "MERGEABLE", Settled)}

GeneratorOutputs ==
    {"", "TITLE: feat: ai (#7)\nBODY:\n- did x", "TITLE: feat: ai (#7)", "feat: ai (#7)\n- did x"}
AiOutcomes == {[ok |-> FALSE]} \cup {[ok |-> TRUE, stdout |-> g] : g \in GeneratorOutputs}

\* what typer.edit can return: None (editor closed without saving) or a text
EditResults(full_msg) ==
    {None, full_msg \o "\n", "oops\n\nbody", "fix: edited (#7)\n\nnew body"}

\* what the operator can type at a typer.confirm prompt ("" is Enter)
Answers == {"y", "n", ""}

(***************************************************************************)
(* get_unresolved_threads: the count of unresolved, non-outdated threads   *)
(***************************************************************************)
RECURSIVE CountOpen(_)
CountOpen(nodes) ==
    IF nodes = <<>> THEN 0
    ELSE (IF ~nodes[1].isResolved /\ ~nodes[1].isOutdated THEN 1 ELSE 0) + CountOpen(Tail(nodes))

\* fetched is FALSE when the provider query raises
get_unresolved_threads(fetched, nodes) == IF fetched THEN CountOpen(nodes) ELSE 0

(***************************************************************************)
(* merge: the steps of the handler between its calls to the outside        *)
(***************************************************************************)
\* raise typer.Exit(1)
Fail(keep) ==
    /\ pc' = "FAILED"
    /\ exit_code' = 1
    /\ UNCHANGED keep

\* return from the handler
Return(state, keep) ==
    /\ pc' = state
    /\ exit_code' = 0
    /\ UNCHANGED keep

\* auto-detect the PR number, then the --history shortcut
MergeStart ==
    /\ pc = "START"
    /\ \E detected \in PrNumbers \cup {NoNumber} :
        LET n == IF pr_number = NoNumber THEN detected ELSE pr_number IN
        IF n = NoNumber
        THEN Fail(<<opts, pr_number, history_out, pr, provider, ai_result, merge_title,
                    merge_body, source, auto_related, validated, files, files0, clock,
                    prompts, merge_calls>>)
        ELSE IF opts.history_list
        THEN /\ pr_number' = n
             /\ history_out' = history(files)
             /\ Return("DONE", <<opts, pr, provider, ai_result, merge_title, merge_body, source,
                                 auto_related, validated, files, files0, clock, prompts,
                                 merge_calls>>)
        ELSE /\ pr_number' = n
             /\ pc' = "FETCHING"
             /\ UNCHANGED <<exit_code, opts, history_out, pr, provider, ai_result, merge_title,
                            merge_body, source, auto_related, validated, files, files0, clock,
                            prompts, merge_calls>>
    /\ UNCHANGED <<resolveVars, callVars, threadVars>>

\* pr = get_pr_details(pr_number); a failing `gh pr view` is fatal
MergeFetch ==
    /\ pc = "FETCHING"
    /\ \/ Fail(<<opts, pr_number, history_out, pr, provider, ai_result, merge_title,
                 merge_body, source, auto_related, validated, files, files0, clock,
                 prompts, merge_calls>>)
       \/ /\ pr' = provider.pr
            /\ pc' = "COMPOSING"
            /\ UNCHANGED <<exit_code, opts, pr_number, history_out, provider, ai_result,
                           merge_title, merge_body, source, auto_related, validated, files,
                           files0, clock, prompts, merge_calls>>
    /\ UNCHANGED <<resolveVars, callVars, threadVars>>

\* "3. Manual Fallback / Base": the title when none was loaded or generated
FallbackTitle(t, o, p, n) ==
    IF t # "" THEN t
    ELSE IF Truthy(o.title) THEN o.title
    ELSE IF Contains(p.title, "(#" \o Str(n) \o ")") THEN p.title
    ELSE p.title \o " (#" \o Str(n) \o ")"

\* the body next to it: the skeleton only when the title was missing too
FallbackBody(t, b, p, n) ==
    IF t = "" /\ b = "" THEN generate_merge_body(p, n)[1] ELSE b

\* "Title Override (Manual always wins if provided via CLI flag)"
OverrideTitle(t, o) ==
    IF Truthy(o.title) /\ ~Truthy(o.version) THEN o.title ELSE t

\* cache_dir.glob(f"*{version}*")
GlobVersion(dir, version) == {n \in DOMAIN dir : Contains(n, version)}

\* "1. Load from history if requested": the (title, body) read back from a file
ReadVersion(text) ==
    LET content == Split1(text, "\n\n") IN
    <<Strip(content[1]), IF Len(content) > 1 THEN Strip(content[2]) ELSE "">>

\* the end of the composing step, from the (title, body) loaded or generated
Composed(t, b, src, ai) ==
    /\ merge_title' = OverrideTitle(FallbackTitle(t, opts, pr, pr_number), opts)
    /\ merge_body' = FallbackBody(t, b, pr, pr_number)
    /\ source' = src
    /\ ai_result' = ai
    /\ pc' = "VALIDATING"
    /\ UNCHANGED <<exit_code, opts, pr_number, history_out, pr, provider, auto_related,
                   validated, files, files0, clock, prompts, merge_calls>>

\* "Initial Title/Body logic": replay a version, or generate, or fall back
MergeCompose ==
    /\ pc = "COMPOSING"
    /\ IF Truthy(opts.version)
       THEN LET v_files == GlobVersion(files, opts.version) IN
            IF v_files = {}
            THEN Fail(<<opts, pr_number, history_out, pr, provider, ai_result, merge_title,
                        merge_body, source, auto_related, validated, files, files0, clock,
                        prompts, merge_calls>>)
            ELSE \E f \in v_files :   \* v_files[0]: the directory order is not specified
                    LET loaded == ReadVersion(files[f]) IN
                    Composed(loaded[1], loaded[2], "v" \o opts.version, NoAi)
       ELSE IF opts.ai
       THEN \E outcome \in AiOutcomes :
                LET r == generate_ai_message(outcome) IN
                Composed(r[1], IF r[1] # "" THEN r[2] ELSE "", "ai",
                         [called |-> TRUE, title |-> r[1], body |-> r[2]])
       ELSE Composed("", "", "manual", NoAi)
    /\ UNCHANGED <<resolveVars, callVars, threadVars>>

\* one call of save_msg_version: the clock may or may not have moved on
Save(title, body, src) ==
    \E dt \in {0, 1} :
        /\ clock' = clock + dt
        /\ files' = save_msg_version(files, clock + dt, title, body, src)

\* a first validation that lets every title through unchecked
MergeValidateSkipped ==
    /\ pc = "VALIDATING"
    /\ pc' = "FOOTERS"
    /\ UNCHANGED <<exit_code, opts, pr_number, history_out, pr, provider, ai_result,
                   merge_title, merge_body, source, auto_related, validated, files, files0,
                   clock, prompts, merge_calls>>
    /\ UNCHANGED <<resolveVars, callVars, threadVars>>

\* a first validation that saves the message before it looks at the title
MergeValidateSavingFirst ==
    /\ pc = "VALIDATING"
    /\ Save(merge_title, merge_body, source)
    /\ IF validate_semantic_title(merge_title, pr_number)[1]
       THEN /\ validated' = Append(validated, merge_title)
            /\ pc' = "FOOTERS"
            /\ UNCHANGED exit_code
       ELSE /\ pc' = "FAILED"
            /\ exit_code' = 1
            /\ UNCHANGED validated
    /\ UNCHANGED <<opts, pr_number, history_out, pr, provider, ai_result, merge_title,
                   merge_body, source, auto_related, files0, prompts, merge_calls>>
    /\ UNCHANGED <<resolveVars, callVars, threadVars>>

\* "Validate title"
MergeValidate ==
    /\ pc = "VALIDATING"
    /\ IF validate_semantic_title(merge_title, pr_number)[1]
       THEN /\ validated' = Append(validated, merge_title)
            /\ pc' = "FOOTERS"
            /\ UNCHANGED <<exit_code, opts, pr_number, history_out, pr, provider, ai_result,
                           merge_title, merge_body, source, auto_related, files, files0,
                           clock, prompts, merge_calls>>
       ELSE Fail(<<opts, pr_number, history_out, pr, provider, ai_result, merge_title,
                   merge_body, source, auto_related, validated, files, files0, clock,
                   prompts, merge_calls>>)
    /\ UNCHANGED <<resolveVars, callVars, threadVars>>

\* the body after the three footer steps
WithFooters(body, p, n, relates_to) ==
    LET auto == generate_merge_body(p, n)[2] IN
    AppendCliRelated(AppendAutoRelated(AppendFixes(body, p.closing), auto), relates_to, auto)

\* "Append Fixes if not present", "Related issues from PR body",
\* "Explicitly related issues (from CLI)"
MergeFooters ==
    /\ pc = "FOOTERS"
    /\ auto_related' = generate_merge_body(pr, pr_number)[2]
    /\ merge_body' = WithFooters(merge_body, pr, pr_number, opts.relates_to)
    /\ pc' = "FINAL_VALIDATING"
    /\ UNCHANGED <<exit_code, opts, pr_number, history_out, pr, provider, ai_result,
                   merge_title, source, validated, files, files0, clock, prompts, merge_calls>>
    /\ UNCHANGED <<resolveVars, callVars, threadVars>>

\* "Final Validation", then "Save version before potential edit"
MergeFinalValidate ==
    /\ pc = "FINAL_VALIDATING"
    /\ IF validate_semantic_title(merge_title, pr_number)[1]
       THEN /\ validated' = Append(validated, merge_title)
            /\ Save(merge_title, merge_body, source)
            /\ pc' = IF opts.edit THEN "EDITING" ELSE "PREVIEWING"
            /\ UNCHANGED <<exit_code, opts, pr_number, history_out, pr, provider, ai_result,
                           merge_title, merge_body, source, auto_related, files0, prompts,
                           merge_calls>>
       ELSE Fail(<<opts, pr_number, history_out, pr, provider, ai_result, merge_title,
                   merge_body, source, auto_related, validated, files, files0, clock,
                   prompts, merge_calls>>)
    /\ UNCHANGED <<resolveVars, callVars, threadVars>>

\* the message the edit step keeps: <<changed, title, body>>
Edited(title, body, edited_msg) ==
    LET full_msg == MsgContent(title, body) IN
    IF Truthy(edited_msg) /\ Strip(edited_msg) # Strip(full_msg)
    THEN LET lines == Split1(Strip(edited_msg), "\n") IN
         <<TRUE, Strip(lines[1]), IF Len(lines) > 1 THEN Strip(lines[2]) ELSE "">>
    ELSE <<FALSE, title, body>>

\* an edit step that keeps the edited message without saving it
MergeEditUnsaved ==
    /\ pc = "EDITING"
    /\ \E edited_msg \in EditResults(MsgContent(merge_title, merge_body)) :
        LET e == Edited(merge_title, merge_body, edited_msg) IN
        /\ merge_title' = e[2]
        /\ merge_body' = e[3]
    /\ pc' = "PREVIEWING"
    /\ UNCHANGED <<exit_code, opts, pr_number, history_out, pr, provider, ai_result, source,
                   auto_related, validated, files, files0, clock, prompts, merge_calls>>
    /\ UNCHANGED <<resolveVars, callVars, threadVars>>

\* "Optional Editing"
MergeEdit ==
    /\ pc = "EDITING"
    /\ \E edited_msg \in EditResults(MsgContent(merge_title, merge_body)) :
        LET e == Edited(merge_title, merge_body, edited_msg) IN
        /\ merge_title' = e[2]
        /\ merge_body' = e[3]
        /\ IF e[1] THEN Save(e[2], e[3], "edit") ELSE UNCHANGED <<files, clock>>
    /\ pc' = "PREVIEWING"
    /\ UNCHANGED <<exit_code, opts, pr_number, history_out, pr, provider, ai_result, source,
                   auto_related, validated, files0, prompts, merge_calls>>
    /\ UNCHANGED <<resolveVars, callVars, threadVars>>

\* a preview step that goes on to the confirmation whatever --dry-run says
MergePreviewAlwaysProceeds ==
    /\ pc = "PREVIEWING"
    /\ pc' = "CONFIRMING"
    /\ UNCHANGED <<exit_code, opts, pr_number, history_out, pr, provider, ai_result,
                   merge_title, merge_body, source, auto_related, validated, files,
                   files0, clock, prompts, merge_calls>>
    /\ UNCHANGED <<resolveVars, callVars, threadVars>>

\* the preview, then the --dry-run return
MergePreview ==
    /\ pc = "PREVIEWING"
    /\ IF opts.dry_run
       THEN Return("DONE", <<opts, pr_number, history_out, pr, provider, ai_result, merge_title,
                             merge_body, source, auto_related, validated, files, files0,
                             clock, prompts, merge_calls>>)
       ELSE /\ pc' = "CONFIRMING"
            /\ UNCHANGED <<exit_code, opts, pr_number, history_out, pr, provider, ai_result,
                           merge_title, merge_body, source, auto_related, validated, files,
                           files0, clock, prompts, merge_calls>>
    /\ UNCHANGED <<resolveVars, callVars, threadVars>>

\* a prompt whose default answer is accept
ConfirmDefaultAccept == TRUE

\* typer.confirm(..., default=False)
ConfirmDefault == FALSE
Confirm(answer, default) == IF answer = "" THEN default ELSE answer = "y"

\* "Proceed with squash merge of PR #...?"
MergeConfirm ==
    /\ pc = "CONFIRMING"
    /\ \E answer \in Answers :
        /\ prompts' = Append(prompts, [kind |-> "merge", answer |-> answer,
                                       accepted |-> Confirm(answer, ConfirmDefault)])
        /\ IF Confirm(answer, ConfirmDefault)
           THEN /\ pc' = "MERGING"
                /\ UNCHANGED exit_code
           ELSE /\ pc' = "CANCELLED"
                /\ exit_code' = 0
    /\ UNCHANGED <<opts, pr_number, history_out, pr, provider, ai_result, merge_title,
                   merge_body, source, auto_related, validated, files, files0, clock,
                   merge_calls>>
    /\ UNCHANGED <<resolveVars, callVars, threadVars>>

\* a merge that is tried again when the executor fails
MergeExecuteRetrying ==
    /\ pc = "MERGING"
    /\ merge_calls' = Append(merge_calls, [number |-> pr_number, subject |-> merge_title,
                                           body |-> merge_body])
    /\ \E ok \in BOOLEAN :
        /\ pc' = IF ok THEN "DONE" ELSE "MERGING"
        /\ exit_code' = IF ok THEN 0 ELSE NoExit
    /\ UNCHANGED <<opts, provider, pr_number, history_out, pr, ai_result, merge_title,
                   merge_body, source, auto_related, validated, files, files0, clock, prompts>>
    /\ UNCHANGED <<resolveVars, callVars, threadVars>>

\* "Execute merge": gh pr merge --squash --subject ... --body-file ...
MergeExecute ==
    /\ pc = "MERGING"
    /\ merge_calls' = Append(merge_calls, [number |-> pr_number, subject |-> merge_title,
                                           body |-> merge_body])
    /\ \E ok \in BOOLEAN :
        /\ pc' = IF ok THEN "DONE" ELSE "FAILED"
        /\ exit_code' = IF ok THEN 0 ELSE 1
    /\ UNCHANGED <<opts, pr_number, history_out, pr, provider, ai_result, merge_title,
                   merge_body, source, auto_related, validated, files, files0, clock, prompts>>
    /\ UNCHANGED <<resolveVars, callVars, threadVars>>

(***************************************************************************)
(* resolve (pr.py and inventory_threads.py): validate, reply, resolve      *)
(***************************************************************************)
Scripts == {"pr", "inventory_threads"}
RECURSIVE HexRun(_)
HexRun(n) ==
    IF n = 0 THEN "" ELSE IF n = 1 THEN "a"
    ELSE HexRun(n \div 2) \o HexRun(n - n \div 2)

Replies ==
    {"Fixed it", "Fixed in 91a4699", "See #42", "", "#", "Created # 12", "done in ABCDEF0",
     "x91a4699", "91a469", "deadbeef_cafe", "Created #7. Out of scope."}
    \cup {"sha " \o HexRun(n) : n \in {ShaMin - 1, ShaMin, ShaMax, ShaMax + 1}}

validate_reply(script, body) ==
    IF script = "pr" THEN validate_reply_pr(body) ELSE validate_reply_inventory(body)

\* validate_reply(reply): typer.Exit(1) before anything is sent
ResolveValidate ==
    /\ r_pc = "START"
    /\ IF validate_reply(r_script, r_reply)
       THEN /\ r_pc' = "LOADING"
            /\ UNCHANGED r_exit
       ELSE /\ r_pc' = "FAILED"
            /\ r_exit' = 1
    /\ UNCHANGED <<r_script, r_thread, r_reply, r_sent>>
    /\ UNCHANGED <<mergeVars, callVars, threadVars>>

\* the two load_query calls: typer.Exit(1) when a query file is missing
ResolveLoadQueries ==
    /\ r_pc = "LOADING"
    /\ \E found \in BOOLEAN :
        IF found
        THEN /\ r_pc' = "REPLYING"
             /\ UNCHANGED r_exit
        ELSE /\ r_pc' = "FAILED"
             /\ r_exit' = 1
    /\ UNCHANGED <<r_script, r_thread, r_reply, r_sent>>
    /\ UNCHANGED <<mergeVars, callVars, threadVars>>

\* a reply whose failure is not checked (check=True left out)
ResolveReplyUnchecked ==
    /\ r_pc = "REPLYING"
    /\ \E ok \in BOOLEAN :
        /\ r_sent' = Append(r_sent, [mutation |-> "reply", threadId |-> r_thread,
                                     body |-> r_reply, ok |-> ok])
        /\ r_pc' = "RESOLVING"
        /\ UNCHANGED r_exit
    /\ UNCHANGED <<r_script, r_thread, r_reply>>
    /\ UNCHANGED <<mergeVars, callVars, threadVars>>

\* subprocess.run(... reply-to-thread ..., check=True)
ResolveReply ==
    /\ r_pc = "REPLYING"
    /\ \E ok \in BOOLEAN :
        /\ r_sent' = Append(r_sent, [mutation |-> "reply", threadId |-> r_thread,
                                     body |-> r_reply, ok |-> ok])
        /\ IF ok
           THEN /\ r_pc' = "RESOLVING"
                /\ UNCHANGED r_exit
           ELSE /\ r_pc' = "FAILED"
                /\ r_exit' = 1
    /\ UNCHANGED <<r_script, r_thread, r_reply>>
    /\ UNCHANGED <<mergeVars, callVars, threadVars>>

\* subprocess.run(... resolve-review-thread ..., check=True)
ResolveThread ==
    /\ r_pc = "RESOLVING"
    /\ \E ok \in BOOLEAN :
        /\ r_sent' = Append(r_sent, [mutation |-> "resolve", threadId |-> r_thread,
                                     body |-> "", ok |-> ok])
        /\ r_pc' = IF ok THEN "DONE" ELSE "FAILED"
        /\ r_exit' = IF ok THEN 0 ELSE 1
    /\ UNCHANGED <<r_script, r_thread, r_reply>>
    /\ UNCHANGED <<mergeVars, callVars, threadVars>>

(***************************************************************************)
(* The thread inventory: get_thread_inventory of pr.py and the inventory   *)
(* command of inventory_threads.py, with their cache of the last response  *)
(***************************************************************************)
MaxThreads == 2

\* a null entry of reviewThreads.nodes
NullNode == [null |-> TRUE]
ThreadNode(id, resolved, outdated, comments) ==
    [id |-> id, isResolved |-> resolved, isOutdated |-> outdated, comments |-> comments]

ThreadNodes ==
    {ThreadNode("T1", FALSE, FALSE, <<[author |-> "alice"]>>),
     ThreadNode("T2", FALSE, FALSE, <<[author |-> None], [author |-> "alice"]>>),
     ThreadNode("T3", TRUE, FALSE, <<[author |-> "alice"]>>),
     ThreadNode("T4", FALSE, TRUE, <<[author |-> "bob"]>>),
     ThreadNode("T5", FALSE, FALSE, <<>>),
     NullNode}

\* reviewThreads.nodes of a response
Responses == SeqsUpTo(ThreadNodes, MaxThreads)

\* the JSON text of a response; a text that is not JSON has valid FALSE
json_dumps(data) == [valid |-> TRUE, data |-> data]
json_loads(text) == text.data

NoCache == [exists |-> FALSE]
CacheFile(text) == [exists |-> TRUE, text |-> text]

\* the cache before the command: none, or what an earlier run wrote
InitialCaches ==
    {NoCache} \cup
    {CacheFile(json_dumps(d)) :
        d \in {<<>>,
               <<ThreadNode("T3", TRUE, FALSE, <<[author |-> "alice"]>>)>>,
               <<ThreadNode("T1", FALSE, FALSE, <<[author |-> "alice"]>>), NullNode>>}}

\* what gh api graphql can do: exit non-zero, or print a text
QueryOutcomes ==
    {[ok |-> FALSE], [ok |-> TRUE, stdout |-> [valid |-> FALSE]]}
        \cup {[ok |-> TRUE, stdout |-> json_dumps(d)] : d \in Responses}

\* `if not n or n.get("isResolved") or n.get("isOutdated")`, `if not c_nodes`
Actionable(n) ==
    /\ n # NullNode
    /\ ~n.isResolved
    /\ ~n.isOutdated
    /\ n.comments # <<>>

\* t_author: the login of the first comment, "ghost" when it has no author
FirstAuthor(n) ==
    IF n.comments[1].author = None THEN "ghost" ELSE n.comments[1].author

\* filtered_threads of get_thread_inventory
filtered_threads(nodes) == SelectSeq(nodes, Actionable)

\* Thread(thread_id=n.get("id"), ..., author=t_author, ...) of every node
Threads(nodes) ==
    [k \in DOMAIN nodes |-> [thread_id |-> nodes[k].id, author |-> FirstAuthor(nodes[k])]]

\* threads of inventory: the same filter, then --author, as Thread objects
inventory_threads(nodes, author) ==
    Threads(SelectSeq(nodes, LAMBDA n :
        /\ Actionable(n)
        /\ (Truthy(author) => Lower(FirstAuthor(n)) = Lower(author))))

\* raise typer.Exit(1), or an exception nothing catches: exit status 1
ThreadsFail(keep) ==
    /\ t_pc' = "FAILED"
    /\ t_exit' = 1
    /\ UNCHANGED keep

\* pr.py names the cache file after get_repo_info(), so it runs gh repo view
\* first; inventory_threads.py names it after the PR number alone
ThreadsStart ==
    /\ t_pc = "START"
    /\ LET branch == IF t_cache.exists /\ ~t_refetch THEN "READING" ELSE "FETCHING" IN
       IF t_script = "pr"
       THEN /\ t_calls' = Append(t_calls, "repo view")
            /\ \E ok \in BOOLEAN :
                IF ok
                THEN /\ t_pc' = branch
                     /\ UNCHANGED t_exit
                ELSE /\ t_pc' = "FAILED"
                     /\ t_exit' = 1
       ELSE /\ t_pc' = branch
            /\ UNCHANGED <<t_calls, t_exit>>
    /\ UNCHANGED <<t_script, t_refetch, t_author, t_cache, t_cache0, t_data, t_result>>
    /\ UNCHANGED <<mergeVars, resolveVars, callVars>>

\* data = json.loads(cache_file.read_text())
ThreadsReadCache ==
    /\ t_pc = "READING"
    /\ t_data' = json_loads(t_cache.text)
    /\ t_pc' = "FILTERING"
    /\ UNCHANGED <<t_script, t_refetch, t_author, t_cache, t_cache0, t_calls, t_result, t_exit>>
    /\ UNCHANGED <<mergeVars, resolveVars, callVars>>

\* gh api graphql, json.loads(result.stdout), cache_file.write_text(...);
\* inventory looks the repository up here, inside the try
ThreadsFetch ==
    /\ t_pc = "FETCHING"
    /\ \/ /\ t_script = "inventory_threads"
          /\ t_calls' = Append(t_calls, "repo view")
          /\ ThreadsFail(<<t_script, t_refetch, t_author, t_cache, t_cache0, t_data, t_result>>)
       \/ \E outcome \in QueryOutcomes :
            /\ t_calls' = (IF t_script = "pr" THEN t_calls ELSE Append(t_calls, "repo view"))
                             \o <<"api graphql">>
            /\ IF outcome.ok /\ outcome.stdout.valid
               THEN /\ t_data' = json_loads(outcome.stdout)
                    /\ t_cache' = CacheFile(json_dumps(json_loads(outcome.stdout)))
                    /\ t_pc' = "FILTERING"
                    /\ UNCHANGED <<t_script, t_refetch, t_author, t_cache0, t_result, t_exit>>
               ELSE ThreadsFail(<<t_script, t_refetch, t_author, t_cache, t_cache0, t_data,
                                  t_result>>)
    /\ UNCHANGED <<mergeVars, resolveVars, callVars>>

\* "Parse & Filter": the threads returned (pr.py) or listed (inventory)
ThreadsFilter ==
    /\ t_pc = "FILTERING"
    /\ t_result' = IF t_script = "pr" THEN filtered_threads(t_data)
                   ELSE inventory_threads(t_data, t_author)
    /\ t_pc' = "DONE"
    /\ t_exit' = 0
    /\ UNCHANGED <<t_script, t_refetch, t_author, t_cache, t_cache0, t_calls, t_data>>
    /\ UNCHANGED <<mergeVars, resolveVars, callVars>>

ThreadsIdle ==
    /\ t_pc = "IDLE"
    /\ t_script = None
    /\ t_refetch = FALSE
    /\ t_author = None
    /\ t_cache = NoCache
    /\ t_cache0 = NoCache
    /\ t_calls = <<>>
    /\ t_data = <<>>
    /\ t_result = <<>>
    /\ t_exit = NoExit

MergeIdle ==
    /\ pc = "IDLE"
    /\ exit_code = NoExit
    /\ opts = None
    /\ provider = None
    /\ pr_number = NoNumber
    /\ history_out = <<>>
    /\ pr = NoPr
    /\ ai_result = NoAi
    /\ merge_title = ""
    /\ merge_body = ""
    /\ source = ""
    /\ auto_related = <<>>
    /\ validated = <<>>
    /\ files = EmptyDir
    /\ files0 = EmptyDir
    /\ clock = 0
    /\ prompts = <<>>
    /\ merge_calls = <<>>

CallIdle ==
    /\ c_pc = "IDLE"
    /\ c_fn = None
    /\ c_args = None
    /\ c_result = None

InitResolve ==
    /\ r_pc = "START"
    /\ r_script \in Scripts
    /\ r_thread \in {"PRRT_1", "PRRT_2"}
    /\ r_reply \in Replies
    /\ r_sent = <<>>
    /\ r_exit = NoExit
    /\ MergeIdle
    /\ CallIdle
    /\ ThreadsIdle

NextResolve ==
    \/ ResolveValidate
    \/ ResolveLoadQueries
    \/ ResolveReply
    \/ ResolveThread

SpecResolve == InitResolve /\ [][NextResolve]_vars

ResolveIdle ==
    /\ r_pc = "IDLE"
    /\ r_script = None
    /\ r_thread = None
    /\ r_reply = None
    /\ r_sent = <<>>
    /\ r_exit = NoExit

Init ==
    /\ pc = "START"
    /\ exit_code = NoExit
    /\ opts \in Options
    /\ provider \in ProviderStates
    /\ pr_number \in PrNumbers \cup {NoNumber}
    /\ history_out = <<>>
    /\ pr = NoPr
    /\ ai_result = NoAi
    /\ merge_title = ""
    /\ merge_body = ""
    /\ source = ""
    /\ auto_related = <<>>
    /\ validated = <<>>
    /\ files \in InitialDirs
    /\ files0 = files
    /\ clock = 0
    /\ prompts = <<>>
    /\ merge_calls = <<>>
    /\ ResolveIdle
    /\ CallIdle
    /\ ThreadsIdle

Next ==
    \/ MergeStart
    \/ MergeFetch
    \/ MergeCompose
    \/ MergeValidate
    \/ MergeFooters
    \/ MergeFinalValidate
    \/ MergeEdit
    \/ MergePreview
    \/ MergeConfirm
    \/ MergeExecute

Spec == Init /\ [][Next]_vars

(***************************************************************************)
(* Direct calls of validate_semantic_title and generate_merge_body, on     *)
(* arguments beyond those one merge run of the model above passes them     *)
(***************************************************************************)
MaxHeadlines == 12
MaxEmptyHeadlines == 2

TitleArgs ==
    {[title |-> t \o sc \o ": " \o d \o sf, pr_number |-> n] :
        t \in {COMMIT_TYPES[k] : k \in DOMAIN COMMIT_TYPES} \cup {"FEAT", "Fix", "feature", ""},
        sc \in {"", "(api)", "(a-1)", "(API)", "(a_b)", "()", "(core"},
        d \in {"x", "add y z", ""},
        sf \in {" (#7)", " (#12)", "", " (#7)\n", "(#7)", " (#7) ", " (#70)", " #7"},
        n \in {7, 12}}

\* commits of the PR: n commits, the first e of them with an empty headline
Headlines(n, e) == [i \in 1..n |-> IF i <= e THEN "" ELSE "c" \o Str(i)]

\* a PR for generate_merge_body: its description, commits and closing issues
BodyArgs ==
    {[pr |-> [title |-> "Add parser", body |-> b, commits |-> cs, closing |-> cl,
              state |-> "OPEN", mergeable |-> "MERGEABLE"],
      pr_number |-> 7] :
        b \in {"", "See #5, Towards #3, relates to #5", "Relates to #12 and Fixes #12",
               "See #5, see #05", "PART OF #10\nSee\t#2",
               "see to #4 Part of  #9 connects to #2 seesaw #3 oversee #8 relates to#6"},
        cs \in {Headlines(n, e) : n \in 0..MaxHeadlines, e \in 0..MaxEmptyHeadlines}
                  \cup {<<"a", "", "b">>},
        cl \in {<<>>, <<12>>, <<12, 1>>, <<5, 0>>}}

(***************************************************************************)
(* clean_body of both scripts: a chain of re.sub calls.  A pattern is      *)
(* given by the end of its match at a position (0 when it does not match   *)
(* there) and by the text that replaces that match.                        *)
(***************************************************************************)
\* the grave accent, which a TLA+ string cannot hold, is written ~ in the texts
Tick == "~"
Fence == Tick \o Tick \o Tick

\* the dot of the re module matches every character of s[a..b]
OneLine(s, a, b) == \A k \in a..b : Ch(s, k) # "\n"

Least(S) == CHOOSE j \in S : \A k \in S : j <= k

\* the positions a of "](" that close the lazy group of \[(.*?)\]\(.*?\) opened at i
LinkCloses(s, i) ==
    {a \in (i + 1)..Len(s) :
        /\ At(s, "](", a)
        /\ OneLine(s, i + 1, a - 1)
        /\ \E b \in (a + 2)..Len(s) : Ch(s, b) = ")" /\ OneLine(s, a + 2, b - 1)}

\* \[(.*?)\]\(.*?\)
LinkEnd(s, i) ==
    IF At(s, "[", i) /\ LinkCloses(s, i) # {}
    THEN FindFrom(s, ")", Least(LinkCloses(s, i)) + 2) ELSE 0

\* the ends c of \)\]\(.*?\) after the inner "](" at a
LinkedImageEnds(s, a) ==
    {c \in (a + 5)..Len(s) :
        /\ Ch(s, c) = ")"
        /\ \E b \in (a + 2)..(c - 3) :
              At(s, ")](", b) /\ OneLine(s, a + 2, b - 1) /\ OneLine(s, b + 3, c - 1)}

\* the positions a of the inner "](" of \[!\[(.*?)\]\(.*?\)\]\(.*?\) opened at i
LinkedImageCloses(s, i) ==
    {a \in (i + 3)..Len(s) :
        At(s, "](", a) /\ OneLine(s, i + 3, a - 1) /\ LinkedImageEnds(s, a) # {}}

\* \[!\[(.*?)\]\(.*?\)\]\(.*?\): the lazy groups stop at the first ")](" that
\* can be completed and at the first ")" after it
LinkedImageEnd(s, i) ==
    IF At(s, "[![", i) /\ LinkedImageCloses(s, i) # {}
    THEN LET a == Least(LinkedImageCloses(s, i))
             b == Least({k \in (a + 2)..Len(s) :
                         /\ At(s, ")](", k)
                         /\ OneLine(s, a + 2, k - 1)
                         /\ \E c \in (k + 3)..Len(s) :
                               Ch(s, c) = ")" /\ OneLine(s, k + 3, c - 1)})
         IN FindFrom(s, ")", b + 3)
    ELSE 0

\* a delimiter, one or more characters that are not `stop`, then `stop`:
\* <[^>]+> and the inline-code pattern
RunEnd(s, i, open, stop) ==
    IF At(s, open, i) /\ FindFrom(s, stop, i + 1) > i + 1
    THEN FindFrom(s, stop, i + 1) ELSE 0

\* open, [\s\S]*?, close: the comment and the code-block patterns
SpanEnd(s, i, open, close) ==
    IF At(s, open, i) /\ FindFrom(s, close, i + Len(open)) > 0
    THEN FindFrom(s, close, i + Len(open)) + Len(close) - 1 ELSE 0

\* \s+
SpaceEnd(s, i) ==
    IF i <= Len(s) /\ IsSpace(Ch(s, i))
    THEN Least({e \in i..Len(s) :
                 /\ \A k \in i..e : IsSpace(Ch(s, k))
                 /\ (e = Len(s) \/ ~IsSpace(Ch(s, e + 1)))})
    ELSE 0

\* where the match of a pattern of clean_body at position i of s ends
MatchEnd(pattern, s, i) ==
    CASE pattern = "comment" -> SpanEnd(s, i, "<!--", "-->")
      [] pattern = "linked image" -> LinkedImageEnd(s, i)
      [] pattern = "image" -> IF At(s, "!", i) THEN LinkEnd(s, i + 1) ELSE 0
      [] pattern = "link" -> LinkEnd(s, i)
      [] pattern = "tag" -> RunEnd(s, i, "<", ">")
      [] pattern = "code block" -> SpanEnd(s, i, Fence, Fence)
      [] pattern = "inline code" -> RunEnd(s, i, Tick, Tick)
      [] pattern = "whitespace" -> SpaceEnd(s, i)

\* what replaces that match: pr.py drops images, inventory_threads.py keeps
\* their alternative text (group 1) as [IMG:...]
Replacement(pattern, script, s, i) ==
    CASE pattern = "link" -> SubSeq(s, i + 1, Least(LinkCloses(s, i)) - 1)
      [] pattern = "image" /\ script # "pr" ->
            "[IMG:" \o SubSeq(s, i + 2, Least(LinkCloses(s, i + 1)) - 1) \o "]"
      [] pattern = "linked image" /\ script # "pr" ->
            "[IMG:" \o SubSeq(s, i + 3, Least(LinkedImageCloses(s, i)) - 1) \o "]"
      [] pattern = "code block" -> "[CODE]"
      [] pattern = "inline code" -> "[code]"
      [] pattern = "whitespace" -> " "
      [] OTHER -> ""

\* re.sub(pattern, repl, s): the leftmost matches, left to right, none overlapping
RECURSIVE Sub(_, _, _)
Sub(pattern, script, s) ==
    LET starts == {i \in 1..Len(s) : MatchEnd(pattern, s, i) > 0} IN
    IF starts = {} THEN s
    ELSE LET i == Least(starts)
             e == MatchEnd(pattern, s, i)
         IN SubSeq(s, 1, i - 1) \o Replacement(pattern, script, s, i)
              \o Sub(pattern, script, SubSeq(s, e + 1, Len(s)))

\* the substitutions of a list of patterns, one after the other
RECURSIVE SubAll(_, _, _)
SubAll(patterns, script, s) ==
    IF patterns = <<>> THEN s
    ELSE SubAll(Tail(patterns), script, Sub(patterns[1], script, s))

\* clean_body of pr.py
clean_body_pr(text) ==
    Strip(SubAll(<<"comment", "linked image", "image", "link", "tag", "code block",
                   "inline code", "whitespace">>, "pr", text))

\* clean_body of inventory_threads.py
clean_body_inventory(text) ==
    Strip(SubAll(<<"comment", "image", "linked image", "link", "tag", "whitespace">>,
                 "inventory_threads", text))

clean_body(script, text) ==
    IF script = "pr" THEN clean_body_pr(text) ELSE clean_body_inventory(text)

\* comment bodies the two commands clean
BodyTexts ==
    {"plain text",
     "a <!-- SECRET --> b",
     "Run:\n~~~\nrm -rf x\n~~~\ndone",
     "~~~\nif a < b:\n~~~\nthen c > d",
     "see [docs](http://u) and ![pic](http://i) ok",
     "[![alt](http://i)](http://l) x",
     "<b>bold</b> ~inline~ y",
     "<!-- one --><!-- two -->z",
     "<!-- open only",
     "~~~a~~~b~~~c~~~",
     "x <!--\nMULTI\nLINE\n--> y ~~~\ncode1\n~~~ z",
     "a <> b ~~ c",
     "  lead\n\n trail  ",
     "[a](b) [c](d)",
     "[x]\n(y)",
     "![p](q",
     "~a~ ~b~",
     "<a\nb>c",
     "<!---->k",
     "[t](u)(v)",
     "[[n]](m)",
     "a ~~~ b"}

CleanArgs == {[script |-> sc, text |-> t] : sc \in Scripts, t \in BodyTexts}

CallValidateTitle ==
    /\ c_pc = "CALL"
    /\ c_fn = "validate_semantic_title"
    /\ c_result' = validate_semantic_title(c_args.title, c_args.pr_number)
    /\ c_pc' = "RETURNED"
    /\ UNCHANGED <<c_fn, c_args, mergeVars, resolveVars, threadVars>>

CallGenerateMergeBody ==
    /\ c_pc = "CALL"
    /\ c_fn = "generate_merge_body"
    /\ c_result' = generate_merge_body(c_args.pr, c_args.pr_number)
    /\ c_pc' = "RETURNED"
    /\ UNCHANGED <<c_fn, c_args, mergeVars, resolveVars, threadVars>>

CallCleanBody ==
    /\ c_pc = "CALL"
    /\ c_fn = "clean_body"
    /\ c_result' = clean_body(c_args.script, c_args.text)
    /\ c_pc' = "RETURNED"
    /\ UNCHANGED <<c_fn, c_args, mergeVars, resolveVars, threadVars>>

InitCall ==
    /\ c_pc = "CALL"
    /\ c_result = None
    /\ \/ c_fn = "validate_semantic_title" /\ c_args \in TitleArgs
       \/ c_fn = "generate_merge_body" /\ c_args \in BodyArgs
       \/ c_fn = "clean_body" /\ c_args \in CleanArgs
    /\ MergeIdle
    /\ ResolveIdle
    /\ ThreadsIdle

NextCall ==
    \/ CallValidateTitle
    \/ CallGenerateMergeBody
    \/ CallCleanBody

SpecCall == InitCall /\ [][NextCall]_vars

InitThreads ==
    /\ t_pc = "START"
    /\ t_script \in Scripts
    /\ t_refetch \in BOOLEAN
    /\ t_author \in (IF t_script = "pr" THEN {None} ELSE {None, "Alice", "bob"})
    /\ t_cache \in InitialCaches
    /\ t_cache0 = t_cache
    /\ t_calls = <<>>
    /\ t_data = <<>>
    /\ t_result = <<>>
    /\ t_exit = NoExit
    /\ MergeIdle
    /\ ResolveIdle
    /\ CallIdle

NextThreads ==
    \/ ThreadsStart
    \/ ThreadsReadCache
    \/ ThreadsFetch
    \/ ThreadsFilter

SpecThreads == InitThreads /\ [][NextThreads]_vars

(***************************************************************************)
(* Claims                                                                  *)
(***************************************************************************)
IssueNumbers == {1, 12}
Last(seq) == seq[Len(seq)]

\* C1: the commit title handed to the external merge executor satisfies the
\* Title Validator grammar for that PR number, however the title was produced
\* and also after the operator replaced the message in the edit step.
C1_MergedTitleIsValid ==
    \A i \in DOMAIN merge_calls :
        validate_semantic_title(merge_calls[i].subject, merge_calls[i].number)[1]

\* C2: the external merge executor is invoked at most once and only after the
\* operator accepted the confirmation prompt; a run at the MERGING step invokes
\* it exactly once, and once it has been invoked the run has terminated: no
\* step follows, so nothing is retried.
C2_MergeOnceAfterConfirm ==
    /\ [](/\ Len(merge_calls) <= 1
          /\ pc = "MERGING" => merge_calls = <<>>
          /\ (pc = "MERGING" \/ merge_calls # <<>>) =>
                /\ prompts # <<>>
                /\ Last(prompts).kind = "merge"
                /\ Last(prompts).answer = "y"
          /\ merge_calls # <<>> => pc \in {"DONE", "FAILED"} /\ exit_code \in {0, 1})
    /\ [][/\ merge_calls = <<>>
          /\ pc = "MERGING" => Len(merge_calls') = 1 /\ pc' \in {"DONE", "FAILED"}]_vars

C2_Witness == Len(merge_calls) = 1 /\ pc = "FAILED" /\ exit_code = 1

\* C3: at the confirmation prompt the default answer is decline, and whenever
\* the operator declines, explicitly ("n") or by default (Enter), the merge
\* executor is never invoked and the run ends as a clean cancellation with
\* exit status 0.
C3_DeclineIsCleanCancel ==
    \A i \in DOMAIN prompts :
        (prompts[i].kind = "merge" /\ prompts[i].answer \in {"", "n"}) =>
            /\ merge_calls = <<>>
            /\ pc = "CANCELLED"
            /\ exit_code = 0

C3_Witness ==
    /\ prompts # <<>>
    /\ Last(prompts).answer = ""
    /\ pc = "CANCELLED"
    /\ merge_calls = <<>>

\* C4: whenever the PR still has an unresolved, non-outdated review thread, the
\* merge executor is reached only after the count was presented and the
\* operator explicitly confirmed it.
C4_OpenThreadsNeedConfirmation ==
    (pc = "MERGING" \/ merge_calls # <<>>) /\ CountOpen(provider.threads) > 0 =>
        \E i \in DOMAIN prompts : prompts[i].kind = "threads" /\ prompts[i].accepted

\* C5: in resolve (both scripts), a reply with neither a word-bounded 7-40
\* character lowercase-hex token nor a '#<digits>' reference makes the command
\* fail with exit status 1, and no mutation is ever sent to the provider.
C5_UntraceableReplyRejected ==
    (~HasSha(r_reply) /\ ~HasIssueRef(r_reply)) =>
        /\ r_sent = <<>>
        /\ r_pc \in {"START", "FAILED"}
        /\ r_pc = "FAILED" => r_exit = 1

C5_Witness == r_pc = "FAILED" /\ r_exit = 1 /\ r_reply = "Fixed it" /\ r_sent = <<>>

\* C6: in resolve, the resolve-thread mutation is sent only after the
\* reply-to-thread mutation for the same thread succeeded; a failed reply ends
\* the command with exit status 1 and no resolve mutation; each of the two
\* mutations is sent at most once.
C6_ResolveOnlyAfterReply ==
    /\ Len(r_sent) <= 2
    /\ Len(r_sent) >= 1 => r_sent[1].mutation = "reply" /\ r_sent[1].threadId = r_thread
    /\ Len(r_sent) = 2 =>
          /\ r_sent[2].mutation = "resolve"
          /\ r_sent[1].ok
          /\ r_sent[2].threadId = r_sent[1].threadId
    /\ (Len(r_sent) >= 1 /\ ~r_sent[1].ok) =>
          /\ Len(r_sent) = 1
          /\ r_pc = "FAILED"
          /\ r_exit = 1

C6_Witness == Len(r_sent) = 1 /\ ~r_sent[1].ok /\ r_pc = "FAILED"

\* C7: a FETCHING failure is fatal: when the PR cannot be fetched, or the
\* fetched PR is not open, or it is conflicting, the run has failed and nothing
\* further happened: no version saved, no confirmation asked, no merge.
C7_FetchFailureIsFatal ==
    LET unfit == pr # NoPr /\ (pr.state # "OPEN" \/ pr.mergeable = "CONFLICTING")
        unfetched == pr = NoPr /\ pc \notin {"START", "FETCHING", "DONE"}
    IN (unfit \/ unfetched) =>
        /\ pc = "FAILED"
        /\ exit_code = 1
        /\ files = files0
        /\ prompts = <<>>
        /\ merge_calls = <<>>

\* C8: a title that fails validation fails the run unless --title is given;
\* whenever --title is given, with any combination of --ai, --version and
\* --edit, the title that is validated and then used for the merge is the
\* override.
C8_OverrideIsTheTitle ==
    /\ pc \in {"FOOTERS", "FINAL_VALIDATING"} =>
          validate_semantic_title(merge_title, pr_number)[1]
    /\ (Truthy(opts.title) /\ pc = "VALIDATING") => merge_title = opts.title
    /\ Truthy(opts.title) => \A i \in DOMAIN validated : validated[i] = opts.title
    /\ Truthy(opts.title) => \A i \in DOMAIN merge_calls : merge_calls[i].subject = opts.title

\* C9: COMPOSING always yields a non-empty body: for every outcome of the
\* generator step, the body that enters validation is the generator's
\* non-empty body or the deterministic skeleton.
C9_ComposedBodyNonEmpty ==
    (pc = "VALIDATING" /\ ai_result.called) =>
        /\ merge_body # ""
        /\ \/ merge_body = ai_result.body
           \/ merge_body = generate_merge_body(pr, pr_number)[1]

\* C10: in the final composed body no issue number appears both in a
\* 'Fixes #N' line and in a 'Relates to #N' line.
C10_NoIssueBothFixedAndRelated ==
    pc = "FINAL_VALIDATING" =>
        \A n \in IssueNumbers :
            ~(/\ InSeq("Fixes #" \o Str(n), Lines(merge_body))
              /\ InSeq("Relates to #" \o Str(n), Lines(merge_body)))

\* how many elements of seq equal x
Occurrences(x, seq) == Cardinality({i \in DOMAIN seq : seq[i] = x})

\* C11: whatever body composition started from (skeleton, generated body or
\* replayed version), the final composed body holds exactly one 'Fixes #N'
\* line for each closing issue N of the PR, and no Fixes section when the PR
\* closes no issue.
C11_OneFixesLinePerClosingIssue ==
    pc = "FINAL_VALIDATING" =>
        /\ \A i \in DOMAIN pr.closing :
              pr.closing[i] # 0 =>
                  Occurrences("Fixes #" \o Str(pr.closing[i]), Lines(merge_body)) = 1
        /\ pr.closing = <<>> => ~Contains(merge_body, "## Fixes")

\* the lines of the Fixes / Related Issues footers
IsFooterLine(line) ==
    \/ line \in {"## Fixes", "## Related Issues"}
    \/ At(line, "Fixes #", 1)
    \/ At(line, "Relates to #", 1)

\* C12: the footer step is idempotent: applied again to the body it produced
\* (same closing issues, same PR description, same --relates-to values) it
\* returns that body unchanged, and no section heading, 'Fixes #N' line or
\* 'Relates to #N' line stands in it twice.
C12_FootersIdempotent ==
    pc = "FINAL_VALIDATING" =>
        /\ WithFooters(merge_body, pr, pr_number, opts.relates_to) = merge_body
        /\ \A i \in DOMAIN Lines(merge_body) :
              IsFooterLine(Lines(merge_body)[i]) =>
                  Occurrences(Lines(merge_body)[i], Lines(merge_body)) = 1

C12_Witness ==
    /\ pc = "FINAL_VALIDATING"
    /\ ai_result.called
    /\ opts.relates_to # <<>>
    /\ Contains(merge_body, "- did x\n\n## Fixes\n\nFixes #12")
    /\ Contains(merge_body, "\nRelates to #1")

\* C13: a version saved by the run and loaded again by the identifier the save
\* returned gives back exactly the title and the body that were saved.
C13_SaveLoadRoundTrip ==
    pc \in {"EDITING", "PREVIEWING"} =>
        LET v_id == MsgHash(MsgContent(merge_title, merge_body)) IN
        /\ GlobVersion(files, v_id) # {}
        /\ \A f \in GlobVersion(files, v_id) :
              ReadVersion(files[f]) = <<merge_title, merge_body>>

\* the version files of a cache directory: everything but the latest pointer
VersionFiles(dir) == DOMAIN dir \ {"latest.md"}

\* C14: the history listing of a PR names every version saved for it, each
\* exactly once, the newest first.
C14_HistoryListsEveryVersion ==
    (pc = "DONE" /\ opts.history_list) =>
        /\ {history_out[i] : i \in DOMAIN history_out} = VersionFiles(files)
        /\ Len(history_out) = Cardinality(VersionFiles(files))
        /\ \A i, j \in DOMAIN history_out :
              i < j => StrLess(history_out[j], history_out[i])

\* the %Y%m%d-%H%M%S prefix of a version file name
StampOf(name) == SubSeq(name, 1, Len(TimeStamp(0)))

\* C15: whenever versions have been saved for the PR, in this run or in an
\* earlier one, the latest pointer holds title + blank line + body of the most
\* recently saved version: every save leaves in it exactly the message it
\* saved, next to a version file of the current second with the same content.
C15_LatestIsLastSaved ==
    /\ [](VersionFiles(files) # {} =>
            /\ "latest.md" \in DOMAIN files
            /\ \E f \in VersionFiles(files) :
                  /\ files[f] = files["latest.md"]
                  /\ \A g \in VersionFiles(files) : ~StrLess(StampOf(f), StampOf(g)))
    /\ [][files' # files =>
            /\ "latest.md" \in DOMAIN files'
            /\ files'["latest.md"] = MsgContent(merge_title', merge_body')
            /\ \E f \in VersionFiles(files') :
                  /\ StampOf(f) = TimeStamp(clock')
                  /\ files'[f] = files'["latest.md"]]_vars

C15_Witness ==
    /\ pc = "PREVIEWING"
    /\ Cardinality(VersionFiles(files)) = 3
    /\ files["latest.md"] = MsgContent("fix: edited (#7)", "new body")
    /\ files0["latest.md"] = MsgContent(OldTitle, OldBody)

\* C16: a saved version is immutable: no step of the command (a save with any
\* source tag, an edit, a replay, a dry run) removes a version file or changes
\* its content; only the latest pointer is overwritten.
C16_VersionsImmutable ==
    [][\A f \in VersionFiles(files) : f \in DOMAIN files' /\ files'[f] = files[f]]_vars

C16_Witness ==
    /\ pc = "DONE"
    /\ opts.dry_run /\ opts.edit /\ Truthy(opts.version)
    /\ Cardinality(VersionFiles(files)) = 3
    /\ files["latest.md"] # files0["latest.md"]
    /\ \A f \in VersionFiles(files0) : files[f] = files0[f]

\* C17: the related issues generate_merge_body extracts from a PR description
\* are exactly the numbers matched by the related pattern minus the closing
\* issues, each number once, in ascending numeric order; the two examples of
\* the specification give [3, 5] and the empty list.
C17_RelatedSetExtracted ==
    (c_pc = "RETURNED" /\ c_fn = "generate_merge_body") =>
        LET related == c_result[2]
            number == [i \in DOMAIN related |-> ParseInt(related[i])]
            matched == {ParseInt(m) : m \in FoundRelated(c_args.pr.body)}
        IN /\ {number[i] : i \in DOMAIN number} = matched \ ClosingNumbers(c_args.pr.closing)
           /\ \A i, j \in DOMAIN number : i < j => number[i] < number[j]
           /\ (c_args.pr.body = "See #5, Towards #3, relates to #5" /\ c_args.pr.closing = <<>>)
                 => related = <<"3", "5">>
           /\ (c_args.pr.body = "Relates to #12 and Fixes #12" /\ c_args.pr.closing = <<12>>)
                 => related = <<>>

\* the title grammar '<type>[(<scope>)]: <description> (#<pr>)' of the
\* specification: type one of the nine tags in any case, scope of lowercase
\* alphanumerics and hyphens, description non-empty and on one line
IsLowerScopeCh(c) == IndexIn(c, LowerLetters) > 0 \/ IsDigit(c) \/ c = "-"

InGrammar(title, prn) ==
    LET suffix == " (#" \o Str(prn) \o ")" IN
    \E k \in DOMAIN COMMIT_TYPES : \E colon \in 1..Len(title) :
        LET type == SubSeq(title, 1, Len(COMMIT_TYPES[k]))
            scope == SubSeq(title, Len(COMMIT_TYPES[k]) + 1, colon - 1)
            rest == SubSeq(title, colon + 2, Len(title))
            description == SubSeq(rest, 1, Len(rest) - Len(suffix))
        IN /\ colon > Len(COMMIT_TYPES[k])
           /\ At(title, ": ", colon)
           /\ Lower(type) = COMMIT_TYPES[k]
           /\ \/ scope = ""
              \/ /\ Len(scope) >= 3
                 /\ Ch(scope, 1) = "(" /\ Ch(scope, Len(scope)) = ")"
                 /\ \A i \in 2..(Len(scope) - 1) : IsLowerScopeCh(Ch(scope, i))
           /\ Len(rest) > Len(suffix)
           /\ At(rest, suffix, Len(rest) - Len(suffix) + 1)
           /\ ~Contains(description, "\n")

\* C18: validate_semantic_title(title, pr) succeeds exactly for the titles of
\* the grammar (scope in lowercase only) and otherwise fails with a message
\* that names the PR number; it returns a value and changes nothing.
C18_TitleGrammar ==
    /\ (c_pc = "RETURNED" /\ c_fn = "validate_semantic_title") =>
          /\ c_result[1] <=> InGrammar(c_args.title, c_args.pr_number)
          /\ ~c_result[1] => Contains(c_result[2], "(#" \o Str(c_args.pr_number) \o ")")
    /\ MergeIdle
    /\ ResolveIdle

\* a reply is traceable when one of its words (a maximal run of letters,
\* digits and underscores) is made of 7 to 40 lowercase hexadecimal characters,
\* or when it holds a '#' immediately followed by a digit
Traceable(body) ==
    \/ \E a \in 1..Len(body) : \E b \in a..Len(body) :
          /\ b - a + 1 >= 7 /\ b - a + 1 <= 40
          /\ \A k \in a..b : IsHex(Ch(body, k))
          /\ a = 1 \/ ~IsWord(Ch(body, a - 1))
          /\ b = Len(body) \/ ~IsWord(Ch(body, b + 1))
    \/ \E i \in 1..(Len(body) - 1) : Ch(body, i) = "#" /\ Ch(body, i + 1) \in
          {"0", "1", "2", "3", "4", "5", "6", "7", "8", "9"}

ChangesSection(body) ==
    LET lines == Lines(body)
        stops == {i \in 5..Len(lines) : lines[i] = ""}
        stop == IF stops = {} THEN Len(lines) + 1
                ELSE CHOOSE i \in stops : \A j \in stops : i <= j
    IN SubSeq(lines, 5, stop - 1)

\* C20: the Changes section of the deterministic body lists the first 10
\* non-empty commit headlines (all of them when there are fewer), in order,
\* and ends with an 'and N more commits' line exactly when non-empty headlines
\* were left out, N being how many were.
C20_ChangesListsTenHeadlines ==
    (c_pc = "RETURNED" /\ c_fn = "generate_merge_body") =>
        LET headlines == SelectSeq(c_args.pr.commits, LAMBDA c : c # "")
            shown == IF Len(headlines) < 10 THEN Len(headlines) ELSE 10
            left == Len(headlines) - shown
        IN ChangesSection(c_result[1]) =
              [i \in 1..shown |-> "- " \o headlines[i]]
              \o (IF left > 0 THEN <<"- ... and " \o Str(left) \o " more commits">> ELSE <<>>)
\* the interiors of the spans open ... close of s, leftmost first, none overlapping
RECURSIVE Spans(_, _, _)
Spans(s, open, close) ==
    LET i == Find(s, open)
        j == IF i = 0 THEN 0 ELSE FindFrom(s, close, i + Len(open))
    IN IF j = 0 THEN <<>>
       ELSE <<SubSeq(s, i + Len(open), j - 1)>>
              \o Spans(SubSeq(s, j + Len(close), Len(s)), open, close)

\* a text as it reads once its whitespace is compressed
Squeezed(s) == Strip(Sub("whitespace", "pr", s))

CountOf(hay, needle) == Cardinality({i \in 1..Len(hay) : At(hay, needle, i)})

\* C21: for every input text, the output of clean_body (of either script)
\* holds the text of no HTML comment of the input, holds the placeholder
\* [CODE] once for every fenced code block of the input, and holds the code
\* of none of them.
C21_SanitizerHidesCommentsAndCode ==
    (c_fn = "clean_body" /\ c_pc = "RETURNED") =>
        LET comments == Spans(c_args.text, "<!--", "-->")
            blocks == Spans(c_args.text, Fence, Fence)
        IN /\ \A k \in DOMAIN comments :
                Squeezed(comments[k]) # "" => ~Contains(c_result, Squeezed(comments[k]))
           /\ CountOf(c_result, "[CODE]") = Len(blocks)
           /\ \A k \in DOMAIN blocks :
                Squeezed(blocks[k]) # "" => ~Contains(c_result, Squeezed(blocks[k]))

\* C22: whenever a step of a merge run writes to the version store, the title
\* has passed validation at least twice by then, the first two validated
\* titles being one and the same valid title; and from the first validation on
\* through the footer steps to the second one the title does not change.
C22_TwoValidationsBeforeSave ==
    [][/\ files' # files =>
            /\ Len(validated') >= 2
            /\ validated'[1] = validated'[2]
            /\ validate_semantic_title(validated'[1], pr_number')[1]
       /\ Len(validated) = 1 =>
            /\ merge_title = validated[1]
            /\ merge_title' = merge_title]_vars

C22_Witness ==
    /\ pc = "EDITING"
    /\ Len(validated) = 2
    /\ VersionFiles(files) # VersionFiles(files0)
    /\ Contains(merge_body, "## Fixes")
    /\ Contains(merge_body, "## Related Issues")

\* C23: every message that is merged has been persisted: when the merge
\* executor is about to be invoked and once it has been, a version file holds
\* exactly title, blank line, body of the merged message and latest.md holds
\* the same content, whether or not an edit step ran and changed the message.
C23_MergedMessageIsPersisted ==
    LET persisted(title, body) ==
            /\ \E f \in VersionFiles(files) : files[f] = MsgContent(title, body)
            /\ "latest.md" \in DOMAIN files
            /\ files["latest.md"] = MsgContent(title, body)
    IN /\ pc = "MERGING" => persisted(merge_title, merge_body)
       /\ \A i \in DOMAIN merge_calls : persisted(merge_calls[i].subject, merge_calls[i].body)

C23_Witness ==
    /\ merge_calls # <<>>
    /\ opts.edit
    /\ merge_calls[1].subject = "fix: edited (#7)"
    /\ files["latest.md"] = MsgContent("fix: edited (#7)", "new body")
    /\ Cardinality(VersionFiles(files)) = Cardinality(VersionFiles(files0)) + 2

\* C24: when the merge command has failed before the save step (no PR number,
\* PR fetch failure, --version not found, a title validation failing), the
\* version store is as it was when the command started - no file created,
\* latest.md unchanged - and no confirmation was asked and no merge made.
C24_EarlyFailureLeavesStore ==
    (pc = "FAILED" /\ Len(validated) < 2) =>
        /\ files = files0
        /\ prompts = <<>>
        /\ merge_calls = <<>>

C24_Witness ==
    /\ pc = "FAILED"
    /\ pr # NoPr
    /\ validated = <<>>
    /\ merge_title # ""
    /\ ~validate_semantic_title(merge_title, pr_number)[1]
    /\ "latest.md" \in DOMAIN files0
    /\ files = files0

\* C25: a merge run with --dry-run, whatever the other options, never shows
\* the confirmation prompt and never invokes the merge executor; once it has
\* shown the preview it ends, with exit status 0.
C25_DryRunNeverMerges ==
    /\ [](opts.dry_run =>
            /\ prompts = <<>>
            /\ merge_calls = <<>>
            /\ pc \notin {"CONFIRMING", "MERGING", "CANCELLED"})
    /\ [][(opts.dry_run /\ pc = "PREVIEWING") => (pc' = "DONE" /\ exit_code' = 0)]_vars

C25_Witness ==
    /\ opts.dry_run
    /\ ~opts.history_list
    /\ opts.ai
    /\ opts.edit
    /\ pc = "DONE"
    /\ exit_code = 0
    /\ files # files0
    /\ prompts = <<>>

\* the source tag of a version file name: between the time stamp and the hash
SourceOf(name) == SubSeq(name, Len(TimeStamp(0)) + 2, Len(name) - HashLen - 4)

\* C27: the source tag of every version a step of the run creates tells where
\* the message came from: the tag is ai only if the generator returned a
\* title in this run and the saved message starts with the generator's title
\* and body; after a failed generation the save before the edit step is
\* tagged manual; a version the edit step creates is tagged edit.
C27_SourceTagReflectsOrigin ==
    [][\A f \in VersionFiles(files') \ VersionFiles(files) :
          /\ SourceOf(f) = "ai" =>
                /\ ai_result.called
                /\ ai_result.title # ""
                /\ At(files'[f], MsgContent(ai_result.title, ai_result.body), 1)
          /\ (pc = "FINAL_VALIDATING" /\ ai_result.called /\ ai_result.title = "") =>
                SourceOf(f) = "manual"
          /\ pc = "EDITING" => SourceOf(f) = "edit"]_vars

\* the ids of the nodes of a response that are not resolved, not outdated and
\* have at least one comment, in order
RECURSIVE OpenIds(_)
OpenIds(nodes) ==
    IF nodes = <<>> THEN <<>>
    ELSE (IF /\ nodes[1] # NullNode
             /\ ~nodes[1].isResolved
             /\ ~nodes[1].isOutdated
             /\ Len(nodes[1].comments) >= 1
          THEN <<nodes[1].id>> ELSE <<>>) \o OpenIds(Tail(nodes))

\* the ids of the threads a command returned
ResultIds == [i \in DOMAIN t_result |->
                 IF t_script = "pr" THEN t_result[i].id ELSE t_result[i].thread_id]

\* C26: once the thread inventory has ended: with force_refetch the provider
\* was queried, and on success the cache holds the new response; without
\* force_refetch and with a cache present the provider was not queried and
\* the result comes from the cache; when it failed the cache file is as it
\* was and the exit status is 1; the threads returned are exactly the nodes of
\* the cached or fetched response that are not resolved, not outdated and have
\* a comment (for inventory: when no --author filter narrows them).
C26_ThreadCache ==
    t_pc \in {"DONE", "FAILED"} =>
        /\ t_refetch =>
              /\ t_calls # <<>>
              /\ t_pc = "DONE" => t_cache = CacheFile(json_dumps(t_data))
        /\ (~t_refetch /\ t_cache0.exists) =>
              /\ t_calls = <<>>
              /\ t_pc = "DONE"
              /\ t_cache = t_cache0
              /\ t_data = json_loads(t_cache0.text)
        /\ t_pc = "FAILED" => (t_cache = t_cache0 /\ t_exit = 1)
        /\ (t_pc = "DONE" /\ t_author = None) =>
              (t_exit = 0 /\ ResultIds = OpenIds(t_data))

====
